---------------------------- MODULE Spec2Model ----------------------------
(***************************************************************************)
(* A model of the SNI proxy of src/orgins/main.go: the domain matcher      *)
(* (needsProxy), the policy store and its polling reload (updateConfig,    *)
(* pollingFileChange), the certificate mint (getCertificate) and the TLS   *)
(* intercept engine (forwardTls) with its per-host lock and resolve cache. *)
(*                                                                         *)
(* A hostname is the sequence of its labels: "www.a.com" is                *)
(* <<"www","a","com">>.  Splitting at every '.' is a bijection between     *)
(* strings and non-empty sequences of dot-free labels, so the empty string *)
(* is <<"">> and "a.com." is <<"a","com","">>.                             *)
(***************************************************************************)
EXTENDS Naturals, Integers, Sequences, FiniteSets, TLC

\* ------------------------------------------------------------------ bounds
\* Longest hostname, in labels, that the matcher is driven with.
MaxLabels == 4

\* The labels hostnames are built from ("" is the empty label).
Labels == {"", "a", "www", "com", "co", "uk", "ck"}

HostsOfLen(n) == [1..n -> Labels]
Hostnames == UNION {HostsOfLen(n) : n \in 1..MaxLabels}

\* Lines the configuration file may hold, and the policy sets built of them.
PolicyNames == {<<"a","com">>, <<"www","a","com">>, <<"co","uk">>,
                <<"a","co","uk">>, <<"www","ck">>}
PolicySets == SUBSET PolicyNames

\* ------------------------------------------------------------ string helpers
\* The last n labels of d.
Suffix(d, n) == SubSeq(d, Len(d) - n + 1, Len(d))

IsSuffix(s, d) == Len(s) <= Len(d) /\ Suffix(d, Len(s)) = s

\* domain[dot+1:] with dot = strings.IndexByte(domain, '.'): the first label
\* is dropped; with no '.' in the string dot is -1 and the string is unchanged.
StripLabel(d) == IF Len(d) = 1 THEN d ELSE Tail(d)

\* ------------------------------------------------- golang.org/x/net/publicsuffix
\* An excerpt of the public suffix list: rules "com", "uk", "co.uk", the
\* wildcard rule "*.ck" and the exception rule "!www.ck".
NormalRules == {<<"com">>, <<"uk">>, <<"co","uk">>}
WildcardParents == {<<"ck">>}
ExceptionRules == {<<"www","ck">>}

SetMax(S) == CHOOSE m \in S : \A x \in S : x <= m

\* Number of labels of the public suffix of d: an exception rule prevails
\* and drops its own leftmost label; otherwise the longest matching rule,
\* the default rule "*" (the last label) when none matches.
PublicSuffixLen(d) ==
  LET exc == {e \in ExceptionRules : IsSuffix(e, d)}
      cand == {1}
              \cup {Len(r) : r \in {x \in NormalRules : IsSuffix(x, d)}}
              \cup {Len(w) + 1 : w \in {x \in WildcardParents :
                                          IsSuffix(x, d) /\ Len(d) > Len(x)}}
  IN IF exc # {} THEN SetMax({Len(e) - 1 : e \in exc}) ELSE SetMax(cand)

PublicSuffix(d) == Suffix(d, PublicSuffixLen(d))

\* A leading '.', a trailing '.' or ".." in the string: an empty label in a
\* name of two labels or more.
HasEmptyLabel(d) == Len(d) >= 2 /\ \E i \in 1..Len(d) : d[i] = ""

\* publicsuffix.EffectiveTLDPlusOne: an error for an empty label and for a
\* name no longer than its public suffix; otherwise the public suffix and
\* the one label before it.
EffectiveTLDPlusOne(d) ==
  IF HasEmptyLabel(d) THEN [err |-> TRUE, val |-> <<>>]
  ELSE IF Len(d) <= PublicSuffixLen(d) THEN [err |-> TRUE, val |-> <<>>]
  ELSE [err |-> FALSE, val |-> Suffix(d, PublicSuffixLen(d) + 1)]

\* ------------------------------------------------------------------ state
\* Tasks that run concurrently: one per accepted connection (forwardTls);
\* a task is also what calls needsProxy and getCertificate.
NumConns == 2
Conns == 1..NumConns

VARIABLES
  proxyAddr,   \* var proxyAddr: the active policy set (main.go:55)
  np,          \* per task: the frame of its needsProxy call
  file,        \* the configuration file CONF_DOMS.ini on disk
  proc,        \* "running", or "exited" once log.Fatal has ended the process
  poll,        \* the task of pollingFileChange and its updateConfig call
  now,         \* time.Now()
  cacheCert,   \* var cacheCert: common name -> leaf (main.go:57)
  gc,          \* per task: the inbound handshake and its getCertificate call
  conn,        \* per task: the connection in forwardTls
  resolvLock,  \* var resolvLock: host -> mutex (main.go:56)
  locked,      \* the mutexes that are locked
  cacheResolv, \* var cacheResolv: host -> Resolv (main.go:58)
  dq           \* per task: the DNS query it handles in forwardDns

matcherVars == <<proxyAddr, np>>
reloadVars == <<file, proc, poll>>
certVars == <<cacheCert, gc>>
tlsVars == <<conn, resolvLock, locked, cacheResolv>>
dnsVars == <<dq>>

\* ---------------------------------------------------------------- needsProxy
\* A needsProxy frame: host is the argument, domain the local that the walk
\* shortens, secondary the eTLD+1, looked the keys looked up in proxyAddr so
\* far (in order), ret the result once pc = "done".  seen is history: the
\* policy sets that were the active one at some instant of the call.
NpIdle == [pc |-> "idle", host |-> <<>>, domain |-> <<>>, secondary |-> <<>>,
           looked |-> <<>>, seen |-> {}, ret |-> FALSE]

\* The frame of a call needsProxy(h) made while P is the active set.
NpCall(P, h) == [pc |-> "entry", host |-> h, domain |-> h, secondary |-> <<>>,
                 looked |-> <<>>, seen |-> {P}, ret |-> FALSE]

NpReturn(f, r) == [f EXCEPT !.pc = "done", !.ret = r]

\* Mutant of NpEntryStep: the error branch of line 78 returns true.
NpEntryStep_ErrTrue(P, f) ==
  LET g == [f EXCEPT !.looked = Append(@, f.domain)]
      e == EffectiveTLDPlusOne(f.domain)
  IN IF f.domain \in P THEN NpReturn(g, TRUE)
     ELSE IF e.err THEN NpReturn(g, TRUE)
     ELSE IF f.domain = e.val THEN NpReturn([g EXCEPT !.secondary = e.val], FALSE)
     ELSE [g EXCEPT !.pc = "loop", !.secondary = e.val]

\* Lines 74-82: the lookup of the name itself in the policy set P read at
\* line 74, the eTLD+1 and the first test of the loop condition.
NpEntryStep(P, f) ==
  LET g == [f EXCEPT !.looked = Append(@, f.domain)]
      e == EffectiveTLDPlusOne(f.domain)
  IN IF f.domain \in P THEN NpReturn(g, TRUE)
     ELSE IF e.err THEN NpReturn(g, FALSE)
     ELSE IF f.domain = e.val THEN NpReturn([g EXCEPT !.secondary = e.val], FALSE)
     ELSE [g EXCEPT !.pc = "loop", !.secondary = e.val]

\* Mutant of NpIterStep: the loop condition is tested before the lookup, so
\* the eTLD+1 itself is never looked up.
NpIterStep_SkipBase(P, f) ==
  LET d == StripLabel(f.domain)
  IN IF d = f.secondary THEN NpReturn([f EXCEPT !.domain = d], FALSE)
     ELSE IF d \in P
       THEN NpReturn([f EXCEPT !.domain = d, !.looked = Append(@, d)], TRUE)
     ELSE [f EXCEPT !.domain = d, !.looked = Append(@, d)]

\* Lines 83-88 and the next test of line 82: one iteration of the walk, with
\* the policy set P read at line 85.
NpIterStep(P, f) ==
  LET d == StripLabel(f.domain)
      g == [f EXCEPT !.domain = d, !.looked = Append(@, d)]
  IN IF d \in P THEN NpReturn(g, TRUE)
     ELSE IF d = f.secondary THEN NpReturn(g, FALSE)
     ELSE g

\* The call's first read of proxyAddr (line 74).
NpEntry(c) ==
  /\ np[c].pc = "entry"
  /\ np' = [np EXCEPT ![c] = NpEntryStep(proxyAddr, np[c])]

\* One iteration of the loop, with its read of proxyAddr (line 85).
NpIter(c) ==
  /\ np[c].pc = "loop"
  /\ np' = [np EXCEPT ![c] = NpIterStep(proxyAddr, np[c])]

\* ------------------------------------------------ the configuration file
\* Highest modification time a write may stamp on the file.
MaxMtime == 2

\* What the file may hold: one domain per line.
FileContents == {{<<"a","com">>}, {<<"www","a","com">>}, {<<"co","uk">>}}

ByteLen(l) ==
  CASE l = "" -> 0 [] l = "a" -> 1 [] l = "co" -> 2 [] l = "uk" -> 2
    [] l = "ck" -> 2 [] l = "www" -> 3 [] l = "com" -> 3

RECURSIVE NameLen(_)
\* Bytes of the name d written with its dots.
NameLen(d) == IF Len(d) = 1 THEN ByteLen(d[1])
              ELSE ByteLen(d[1]) + 1 + NameLen(Tail(d))

RECURSIVE FileSize(_)
\* Bytes of a file holding the names of S, one per line.
FileSize(S) == IF S = {} THEN 0
               ELSE LET d == CHOOSE x \in S : TRUE
                    IN NameLen(d) + 1 + FileSize(S \ {d})

\* os.Stat(configFile) on an existing file: what line 396 compares.
Stat(f) == [size |-> FileSize(f.content), mtime |-> f.mtime]

NoStat == [size |-> 0, mtime |-> 0]

\* Polling rounds counted after a write.
MaxAge == 2

\* A write of the whole file by an editor; the modification time stays (a
\* write within the timestamp's granularity) or moves on.  age is history:
\* the rounds of the polling loop that began since the last write.
FileWrite(S, m) ==
  /\ proc = "running"
  /\ m \in {file.mtime, file.mtime + 1}
  /\ m <= MaxMtime
  /\ ~(file.exists /\ file.content = S /\ file.mtime = m)
  /\ file' = [exists |-> TRUE, content |-> S, mtime |-> m, age |-> 0]
  /\ UNCHANGED <<proc, poll, matcherVars>>

\* The file is removed or renamed away (an editor replacing it).
FileRemove ==
  /\ proc = "running"
  /\ file.exists
  /\ file' = [file EXCEPT !.exists = FALSE]
  /\ UNCHANGED <<proc, poll, matcherVars>>

\* ------------------------------------------- updateConfig, pollingFileChange
\* log.Fatal: the process exits.
Fatal == proc' = "exited"

\* Lines 381-385: the first os.Stat, fatal on error, then the call of
\* updateConfig.
StartupStat ==
  /\ proc = "running" /\ poll.pc = "stat0"
  /\ IF file.exists
       THEN /\ poll' = [poll EXCEPT !.pc = "open", !.initStat = Stat(file)]
            /\ UNCHANGED proc
       ELSE Fatal /\ UNCHANGED poll
  /\ UNCHANGED <<file, proxyAddr, np>>

\* Lines 359-376: os.Open, fatal on error, and the scan of the file into the
\* local newMap.
UcOpen ==
  /\ proc = "running" /\ poll.pc = "open"
  /\ IF file.exists
       THEN /\ poll' = [poll EXCEPT !.pc = "publish", !.newMap = file.content]
            /\ UNCHANGED proc
       ELSE Fatal /\ UNCHANGED poll
  /\ UNCHANGED <<file, proxyAddr, np>>

\* History: a call of needsProxy under way has now seen the set S active.
NpSees(S) ==
  [c \in Conns |-> IF np[c].pc \in {"entry", "loop"}
                     THEN [np[c] EXCEPT !.seen = @ \cup {S}] ELSE np[c]]

\* Line 377, proxyAddr = newMap, and the return to the caller: line 386 at
\* startup (the polling loop starts), line 399 in the loop (initStat = stat).
UcPublish ==
  /\ proc = "running" /\ poll.pc = "publish"
  /\ proxyAddr' = poll.newMap
  /\ np' = NpSees(poll.newMap)
  /\ poll' = IF poll.started
               THEN [poll EXCEPT !.pc = "sleep", !.initStat = poll.stat,
                                 !.stat = NoStat, !.newMap = {}]
               ELSE [poll EXCEPT !.pc = "sleep", !.started = TRUE,
                                 !.newMap = {}]
  /\ UNCHANGED <<file, proc>>

\* Lines 389-398: one round of the loop: the sleep, os.Stat, fatal on error,
\* and the comparison of size and modification time with initStat.
PollStat ==
  /\ proc = "running" /\ poll.pc = "sleep"
  /\ IF ~file.exists THEN Fatal /\ UNCHANGED poll
     ELSE /\ UNCHANGED proc
          /\ IF Stat(file).size # poll.initStat.size
                \/ Stat(file).mtime # poll.initStat.mtime
               THEN poll' = [poll EXCEPT !.pc = "open", !.stat = Stat(file)]
               ELSE poll' = poll
  /\ file' = [file EXCEPT !.age = IF file.exists /\ @ < MaxAge THEN @ + 1 ELSE @]
  /\ UNCHANGED <<proxyAddr, np>>

\* The poller before pollingFileChange is called (main, line 431).
InitPoll ==
  poll = [pc |-> "stat0", started |-> FALSE, initStat |-> NoStat,
          stat |-> NoStat, newMap |-> {}]

\* ------------------------------------------------------------ getCertificate
\* Last instant of the clock.
MaxTime == 2

\* The clock advances.
Tick == now < MaxTime /\ now' = now + 1

NoLeaf == [serial |-> 0]

\* certExpire (line 37), a month, in instants of the clock of SpecAge: one
\* instant is thirty days.
certExpire == 1

\* Line 337, NotAfter: time.Now().Add(certExpire) of a leaf made at
\* notBefore.
NotAfter(leaf) == leaf.notBefore + certExpire

\* The ServerNames of ClientHellos: none (the empty string), a public
\* suffix, an eTLD+1 and names one and two labels below it.
CertHosts == {<<"">>, <<"com">>, <<"a","com">>, <<"www","a","com">>,
              <<"a","www","a","com">>}

\* The keys cacheCert can come to hold.
CertKeys == {<<"a","com">>, <<"www","a","com">>}

\* cacheCert.Load(k)
CertLoad(cache, k) == IF k \in DOMAIN cache THEN cache[k] ELSE NoLeaf

\* Mutant of CertCn: the common name is the eTLD+1 at every depth.
CertCn_ETLD(sni, secondary) == secondary

\* Lines 304-310: the common name, the ServerName itself when it is its own
\* eTLD+1 and the ServerName without its first label otherwise.
CertCn(sni, secondary) ==
  IF sni = secondary THEN secondary ELSE StripLabel(sni)

\* The frame of task c before its ClientHello.
\* at is history: the instant at which getCertificate returned cert.
GcIdle == [pc |-> "hello", sni |-> <<>>, cn |-> <<>>, cert |-> NoLeaf,
           minted |-> NoLeaf, hit |-> "none", at |-> 0]

\* The TLS listener (line 447) reads a ClientHello with ServerName s and
\* calls getCertificate.
ClientHello(c, s) ==
  /\ gc[c].pc = "hello"
  /\ gc' = [gc EXCEPT ![c] = [@ EXCEPT !.pc = "loadSni", !.sni = s]]
  /\ UNCHANGED <<cacheCert, now, matcherVars>>

\* Lines 290-296: no SNI is an error; a leaf cached under the ServerName is
\* returned.
GcLoadSni(c) ==
  /\ gc[c].pc = "loadSni"
  /\ LET s == gc[c].sni
         hit == CertLoad(cacheCert, s)
     IN gc' = [gc EXCEPT ![c] =
          IF s = <<"">> THEN [@ EXCEPT !.pc = "failed"]
          ELSE IF hit # NoLeaf
            THEN [@ EXCEPT !.pc = "served", !.cert = hit, !.hit = "sni",
                           !.at = now]
          ELSE [@ EXCEPT !.pc = "loadCn"]]
  /\ UNCHANGED <<cacheCert, now, matcherVars>>

\* Lines 298-353: the eTLD+1 (an error is returned), the common name, the
\* lookup under it and, on a miss, the mint of a leaf valid from now.  The
\* random serial is modelled by the minting task's number.
GcLoadCn(c) ==
  /\ gc[c].pc = "loadCn"
  /\ LET s == gc[c].sni
         e == EffectiveTLDPlusOne(s)
         cn == CertCn(s, e.val)
         hit == CertLoad(cacheCert, cn)
         leaf == [serial |-> c, cn |-> cn, notBefore |-> now]
     IN gc' = [gc EXCEPT ![c] =
          IF e.err THEN [@ EXCEPT !.pc = "failed"]
          ELSE IF hit # NoLeaf
            THEN [@ EXCEPT !.pc = "served", !.cn = cn, !.cert = hit,
                           !.hit = "cn", !.at = now]
          ELSE [@ EXCEPT !.pc = "store", !.cn = cn, !.minted = leaf]]
  /\ UNCHANGED <<cacheCert, now, matcherVars>>

\* Lines 354-355: cacheCert.Store(cn, cert) and the return of the new leaf.
GcStore(c) ==
  /\ gc[c].pc = "store"
  /\ cacheCert' = [cacheCert EXCEPT ![gc[c].cn] = gc[c].minted]
  /\ gc' = [gc EXCEPT ![c] = [@ EXCEPT !.pc = "served",
                                       !.cert = gc[c].minted,
                                       !.hit = "mint", !.at = now]]
  /\ UNCHANGED <<now, matcherVars>>

\* Lines 148-152: getCertificate returned an error and conn.Handshake fails;
\* forwardTls returns and the connection is closed.
HandshakeRefused(c) ==
  /\ gc[c].pc = "failed"
  /\ gc' = [gc EXCEPT ![c] = [@ EXCEPT !.pc = "closed"]]
  /\ UNCHANGED <<cacheCert, now, matcherVars>>

\* Lines 148-153: the leaf has been presented; the handshake completes (ok)
\* or fails, and on success forwardTls calls needsProxy on the ServerName.
HandshakeDone(c, ok) ==
  /\ gc[c].pc = "served"
  /\ gc' = [gc EXCEPT ![c] = [@ EXCEPT !.pc = IF ok THEN "policy" ELSE "closed"]]
  /\ np' = [np EXCEPT ![c] = IF ok THEN NpCall(proxyAddr, gc[c].sni) ELSE @]
  /\ UNCHANGED <<cacheCert, now, proxyAddr>>

\* ---------------------------------------------------------------- forwardTls
\* cacheAddrTtl (line 40), in ticks of the clock: one tick is five minutes.
cacheAddrTtl == 1

NoLock == 0
NoEntry == [addr |-> "", expire |-> 0]

\* The ServerNames of the connections that reach forwardTls's policy check.
TlsHosts == {<<"www","a","com">>, <<"a","com">>}

\* What one exchange with the upstream resolver returns: an error, or the
\* addresses of the answer section in the order returned.
ExchangeErr == <<"error">>
AnswersAAAA == {ExchangeErr, <<>>, <<"[2001:db8::1]:443">>}
AnswersA == {ExchangeErr, <<>>, <<"192.0.2.1:443">>}

\* Mutant of Expired: the comparison is turned around.
Expired_Inverted(r, t) == t < r.expire

\* Resolv.Expired (lines 69-71): expire.Before(time.Now()).
Expired(r, t) == r.expire < t

\* Lines 114-121 and 130-137: the answers appended to ret as Resolv entries
\* that expire cacheAddrTtl after the instant t.
AppendAnswers(ret, answers, t) ==
  ret \o [i \in 1..Len(answers) |->
            [addr |-> answers[i], expire |-> t + cacheAddrTtl]]

\* Mutant of LoadOrStore: sync.Map.Store, which replaces the stored lock.
LoadOrStore_Store(m, k, v) == [map |-> [m EXCEPT ![k] = v], actual |-> v]

\* resolvLock.LoadOrStore(k, v) (line 187): the stored value when there is
\* one, v stored and returned otherwise.
LoadOrStore(m, k, v) ==
  IF m[k] # NoLock THEN [map |-> m, actual |-> m[k]]
  ELSE [map |-> [m EXCEPT ![k] = v], actual |-> v]

\* Mutant of AfterPolicy: the result of needsProxy is not tested.
AfterPolicy_Unchecked(f) == IF f.pc = "done" THEN "getlock" ELSE "policy"

\* Lines 153-157: where forwardTls stands once the needsProxy frame f has
\* made a step: still in the call, returned (closed) on false, at line 186
\* on true.
AfterPolicy(f) ==
  IF f.pc = "done" THEN (IF f.ret THEN "getlock" ELSE "closed") ELSE "policy"

\* Mutant of StoreResolv: the address that was dialed is not cached.
StoreResolv_Dropped(cache, h, r) == cache

\* cacheResolv.Store(host, addr) (line 207).
StoreResolv(cache, h, r) == [cache EXCEPT ![h] = r]

\* What a dial can meet: the address is reached or not (refused, timed out
\* after dialTimeout), and the server presents a chain, here the set of
\* names it verifies for against the system roots: none, or one hostname.
DialOutcomes == [reach : BOOLEAN, chain : {{}} \cup {{h} : h \in TlsHosts}]

\* Lines 162-181, VerifyPeerCertificate: certs[0].Verify with DNSName host
\* and the rest of the chain as intermediates.
VerifyPeer(chain, host) == host \in chain

\* Mutant of DialOk: InsecureSkipVerify with no verification of its own.
DialOk_SkipVerify(o, host) == o.reach

\* tls.DialWithDialer(d, "tcp", addr, config) (lines 192 and 205) returns a
\* nil error when the address was reached and the handshake, of which
\* VerifyPeerCertificate is a part, succeeded.
DialOk(o, host) == o.reach /\ VerifyPeer(o.chain, host)

\* History: a dial that failed although the address was reached, that is,
\* by the verification of the chain.
Refused(o) == IF o.reach THEN {"unverified"} ELSE {}

\* The two directions of the splice: io.Copy(i, conn) and io.Copy(conn, i).
Dirs == {"up", "down"}

\* Line 224, make(chan struct{}, 2): the capacity of the channel finished.
ChanCap == 2

\* The connection of task c before it is accepted.  addrs is what is left of
\* the list the dial loop ranges over.  The other fields are history: did,
\* what the task has done so far; at, the instant of its cache check; got,
\* what the exchanges of its resolveRealIP call returned; ret, the list that
\* call returned; before, the cache entry of its host at its cache check.
\* fresh, whether the host had an unexpired cache entry when the task passed
\* the policy check.  at, got, ret, before and fresh are kept until the task
\* releases the lock.
\* inb and outb are the inbound socket (conn) and the outbound one (i), peer
\* the chain the server at the other end of i presented, copy
\* the two io.Copy tasks of the splice and fin the number of signals in the
\* channel finished.
ConnIdle == [pc |-> "accept", host |-> <<>>, lock |-> NoLock, addrs |-> <<>>,
             did |-> {}, at |-> 0, got |-> <<>>, ret |-> <<>>,
             before |-> NoEntry, fresh |-> FALSE,
             inb |-> "open", outb |-> "none", peer |-> {},
             copy |-> [d \in Dirs |-> "idle"], fin |-> 0]

\* Mutant of Return: the outbound socket is left open.
Return_LeaveOutbound(f) == [f EXCEPT !.pc = "closed", !.inb = "closed"]

\* Lines 142-146 and 218-222, the deferred calls run when forwardTls
\* returns: i.Close() if an outbound socket was opened, then conn.Close().
Return(f) == [f EXCEPT !.pc = "closed", !.inb = "closed",
                       !.outb = IF @ = "open" THEN "closed" ELSE @]

\* An outbound dial succeeded: i is open, and lines 224-232 start the two
\* copy tasks on an empty channel.
StartSplice(f, chain) ==
  [f EXCEPT !.outb = "open", !.peer = chain, !.copy = [d \in Dirs |-> "copy"]]

\* The part of forwardTls between lock.Lock() and lock.Unlock().
CsPcs == {"cs", "dialCached", "resolveAAAA", "resolveA", "dial"}

\* Lines 148-153: the inbound handshake fails and forwardTls returns, or it
\* completes with ServerName h and needsProxy(h) is called.
TlsHandshake(c, ok, h) ==
  /\ conn[c].pc = "accept"
  /\ conn' = [conn EXCEPT ![c] = IF ok THEN [@ EXCEPT !.pc = "policy", !.host = h]
                                 ELSE Return(@)]
  /\ np' = [np EXCEPT ![c] = IF ok THEN NpCall(proxyAddr, h) ELSE @]
  /\ UNCHANGED <<proxyAddr, now, resolvLock, locked, cacheResolv>>

\* Lines 153-157 after a step of needsProxy.
TlsAfterPolicy(c) ==
  LET r == cacheResolv[conn[c].host]
      pc == AfterPolicy(np'[c])
  IN conn' = [conn EXCEPT ![c] =
       IF pc = "closed" THEN Return(@)
       ELSE [@ EXCEPT !.pc = pc,
                      !.fresh = (pc = "getlock" /\ r # NoEntry
                                 /\ ~Expired(r, now))]]

TlsPolicyEntry(c) ==
  /\ conn[c].pc = "policy" /\ NpEntry(c) /\ TlsAfterPolicy(c)
  /\ UNCHANGED <<proxyAddr, now, resolvLock, locked, cacheResolv>>

TlsPolicyIter(c) ==
  /\ conn[c].pc = "policy" /\ NpIter(c) /\ TlsAfterPolicy(c)
  /\ UNCHANGED <<proxyAddr, now, resolvLock, locked, cacheResolv>>

\* Lines 186-188: a new mutex (named by the task that made it) and
\* resolvLock.LoadOrStore.
GetLock(c) ==
  /\ conn[c].pc = "getlock"
  /\ LET r == LoadOrStore(resolvLock, conn[c].host, c)
     IN /\ resolvLock' = r.map
        /\ conn' = [conn EXCEPT ![c] = [@ EXCEPT !.pc = "lock", !.lock = r.actual]]
  /\ UNCHANGED <<matcherVars, now, locked, cacheResolv>>

\* Line 189: lock.Lock() returns once the mutex is free.
Lock(c) ==
  /\ conn[c].pc = "lock"
  /\ conn[c].lock \notin locked
  /\ locked' = locked \cup {conn[c].lock}
  /\ conn' = [conn EXCEPT ![c] = [@ EXCEPT !.pc = "cs", !.did = @ \cup {"lock"}]]
  /\ UNCHANGED <<matcherVars, now, resolvLock, cacheResolv>>

\* Mutant of Unlock: the mutex is not released.
Unlock_Missing(c) == locked' = locked

\* lock.Unlock() (lines 201, 213, 217).
Unlock(c) == locked' = locked \ {conn[c].lock}

\* Lines 191-198: with an unexpired cache entry the cached address is
\* dialed; otherwise err is "no cached addr" and resolveRealIP is called.
CheckCache(c) ==
  /\ conn[c].pc = "cs"
  /\ LET r == cacheResolv[conn[c].host]
     IN conn' = [conn EXCEPT ![c] =
          IF r # NoEntry /\ ~Expired(r, now)
            THEN [@ EXCEPT !.pc = "dialCached", !.at = now, !.before = r]
          ELSE [@ EXCEPT !.pc = "resolveAAAA", !.at = now, !.before = r,
                         !.did = @ \cup {"resolve"}
                                   \cup (IF r # NoEntry THEN {"stale"} ELSE {})]]
  /\ UNCHANGED <<matcherVars, now, resolvLock, locked, cacheResolv>>

\* Mutant of AfterCachedDial: a failed dial of the cached address ends the
\* connection.
AfterCachedDial_Close(ok) == IF ok THEN "splice" ELSE "closed"

\* Lines 192-197: where forwardTls goes when the dial of the cached address
\* has ended: err is nil and it falls through to line 217, or err is set and
\* resolveRealIP is called.
AfterCachedDial(ok) == IF ok THEN "splice" ELSE "resolveAAAA"

\* Lines 192-198 and 217: the dial of the cached address ends.  On success
\* the lock is released and the splice starts; on failure resolveRealIP is
\* called.
DialCached(c, o) ==
  /\ conn[c].pc = "dialCached"
  /\ IF DialOk(o, conn[c].host)
       THEN /\ Unlock(c)
            /\ conn' = [conn EXCEPT ![c] =
                 [StartSplice(@, o.chain) EXCEPT !.pc = AfterCachedDial(TRUE), !.at = 0,
                           !.before = NoEntry, !.fresh = FALSE,
                           !.did = @ \cup {"dial", "splice"}]]
       ELSE /\ UNCHANGED locked
            /\ conn' = [conn EXCEPT ![c] =
                 [@ EXCEPT !.pc = AfterCachedDial(FALSE),
                           !.did = @ \cup {"dial", "dialfail", "resolve"}
                                     \cup Refused(o)]]
  /\ UNCHANGED <<matcherVars, now, resolvLock, cacheResolv>>

\* The return of resolveRealIP with ret and lines 199-204: a nil list ends
\* the connection, the lock released; otherwise the dial loop starts.
AfterResolve(c, ret, got) ==
  IF ret = <<>>
    THEN /\ Unlock(c)
         /\ conn' = [conn EXCEPT ![c] =
              [Return(@) EXCEPT !.addrs = <<>>, !.at = 0,
                        !.before = NoEntry, !.fresh = FALSE,
                        !.got = <<>>, !.ret = <<>>,
                        !.did = @ \cup {"empty"}]]
    ELSE /\ UNCHANGED locked
         /\ conn' = [conn EXCEPT ![c] = [@ EXCEPT !.pc = "dial", !.addrs = ret,
                                                  !.got = got, !.ret = ret]]

\* resolveRealIP, lines 93-121: the AAAA exchange.  An error returns ret,
\* still nil; otherwise the AAAA answers are appended.
ResolveAAAA(c, ans) ==
  /\ conn[c].pc = "resolveAAAA"
  /\ IF ans = ExchangeErr
       THEN AfterResolve(c, <<>>, <<ans>>)
       ELSE /\ conn' = [conn EXCEPT ![c] =
                 [@ EXCEPT !.pc = "resolveA", !.got = <<ans>>,
                           !.addrs = AppendAnswers(<<>>, ans, now)]]
            /\ UNCHANGED locked
  /\ UNCHANGED <<matcherVars, now, resolvLock, cacheResolv>>

\* resolveRealIP, lines 124-138: the A exchange.  An error returns ret as it
\* stands; otherwise the A answers are appended and ret returned.
ResolveA(c, ans) ==
  /\ conn[c].pc = "resolveA"
  /\ IF ans = ExchangeErr
       THEN AfterResolve(c, conn[c].addrs, Append(conn[c].got, ans))
       ELSE AfterResolve(c, AppendAnswers(conn[c].addrs, ans, now),
                         Append(conn[c].got, ans))
  /\ UNCHANGED <<matcherVars, now, resolvLock, cacheResolv>>

\* Mutant of NextTarget: the list is ranged over from its end.
NextTarget_Last(addrs) == addrs[Len(addrs)]

\* Line 204, for _, addr := range addrs: the address the loop dials next.
NextTarget(addrs) == Head(addrs)

\* Lines 204-217: the dial of the next address of the list ends.  On success
\* the address is cached, the lock released and the splice starts; on
\* failure the next address is tried, and after the last one the connection
\* ends, the lock released.
DialNext(c, o) ==
  /\ conn[c].pc = "dial"
  /\ IF DialOk(o, conn[c].host)
       THEN /\ cacheResolv' = StoreResolv(cacheResolv, conn[c].host,
                                          NextTarget(conn[c].addrs))
            /\ Unlock(c)
            /\ conn' = [conn EXCEPT ![c] =
                 [StartSplice(@, o.chain) EXCEPT !.pc = "splice", !.addrs = <<>>, !.at = 0,
                        !.before = NoEntry, !.fresh = FALSE,
                           !.got = <<>>, !.ret = <<>>,
                           !.did = @ \cup {"dial", "store", "splice"}]]
       ELSE /\ UNCHANGED cacheResolv
            /\ IF Len(conn[c].addrs) = 1
                 THEN /\ Unlock(c)
                      /\ conn' = [conn EXCEPT ![c] =
                           [Return(@) EXCEPT !.addrs = <<>>, !.at = 0,
                        !.before = NoEntry, !.fresh = FALSE,
                                     !.got = <<>>, !.ret = <<>>,
                                     !.did = @ \cup {"dial", "dialfail"}
                                               \cup Refused(o)]]
                 ELSE /\ UNCHANGED locked
                      /\ conn' = [conn EXCEPT ![c] =
                           [@ EXCEPT !.addrs = Tail(@),
                                     !.did = @ \cup {"dial", "dialfail"}
                                               \cup Refused(o)]]
  /\ UNCHANGED <<matcherVars, now, resolvLock>>

\* Lines 218-234 in one step: one direction of the splice finishes and
\* signals, forwardTls receives the signal and returns, closing both
\* sockets, and the other direction ends on the closed sockets and signals.
SpliceDone(c) ==
  /\ conn[c].pc = "splice"
  /\ conn[c].copy = [d \in Dirs |-> "copy"]
  /\ conn' = [conn EXCEPT ![c] =
       [Return(@) EXCEPT !.copy = [d \in Dirs |-> "done"], !.fin = 1]]
  /\ UNCHANGED <<matcherVars, now, resolvLock, locked, cacheResolv>>

\* Lines 226 and 230: io.Copy of direction d returns because its source
\* reached EOF or a socket failed, while both sockets are still open.
CopyEof(c, d) ==
  /\ conn[c].pc = "splice" /\ conn[c].copy[d] = "copy"
  /\ conn' = [conn EXCEPT ![c].copy[d] = "send"]
  /\ UNCHANGED <<matcherVars, now, resolvLock, locked, cacheResolv>>

\* Lines 226 and 230: io.Copy of direction d returns with an error because
\* forwardTls has closed the sockets.
CopyAborted(c, d) ==
  /\ conn[c].pc = "closed" /\ conn[c].copy[d] = "copy"
  /\ conn' = [conn EXCEPT ![c].copy[d] = "send"]
  /\ UNCHANGED <<matcherVars, now, resolvLock, locked, cacheResolv>>

\* Lines 227 and 231, finished <- struct{}{}: the send goes through when
\* the channel has room.
CopySignal(c, d) ==
  /\ conn[c].copy[d] = "send"
  /\ conn[c].fin < ChanCap
  /\ conn' = [conn EXCEPT ![c] = [@ EXCEPT !.copy[d] = "done", !.fin = @ + 1]]
  /\ UNCHANGED <<matcherVars, now, resolvLock, locked, cacheResolv>>

\* Line 233, <-finished, and the return of forwardTls.
SpliceReturn(c) ==
  /\ conn[c].pc = "splice"
  /\ conn[c].fin > 0
  /\ conn' = [conn EXCEPT ![c] = [Return(@) EXCEPT !.fin = @ - 1]]
  /\ UNCHANGED <<matcherVars, now, resolvLock, locked, cacheResolv>>

\* Line 377 as the connections see it: the poller publishes the set S.
Publish(S) ==
  /\ S # proxyAddr
  /\ proxyAddr' = S
  /\ np' = NpSees(S)
  /\ UNCHANGED <<now, conn, resolvLock, locked, cacheResolv>>

\* ----------------------------------------------------------------- forwardDns
\* The names of the questions, as they come off the wire: fully qualified,
\* so "a.com." is <<"a","com","">> and the root "." is <<"","">>.
DnsNames == {<<"a","com","">>, <<"www","a","com","">>, <<"com","">>, <<"","">>}

\* A DNS message with exactly one question.
DnsMessages == [name : DnsNames, qtype : {"A", "AAAA", "MX"}]

\* What cli.Exchange(m, defDNS) returns (line 279): an error, or the
\* upstream's response to m.
UpstreamErr == [error |-> TRUE]
UpstreamResponses(m) ==
  {[error |-> FALSE, question |-> m, aa |-> FALSE, answer |-> a] :
     a \in {<<>>, <<[name |-> m.name, rrtype |-> m.qtype, class |-> "IN",
                     ttl |-> 300, data |-> "203.0.113.7"]>>}}

\* domain[:len(domain)-1] (line 243): the name without its last character,
\* which for a name off the wire is its trailing dot.
DropLastChar(d) == SubSeq(d, 1, Len(d) - 1)

\* Mutant of DnsReply: the Authoritative bit is left as SetReply made it.
DnsReply_NotAuthoritative(m) ==
  [error |-> FALSE, question |-> m, aa |-> FALSE,
   answer |-> <<[name |-> m.name, rrtype |-> m.qtype, class |-> "IN",
                 ttl |-> 60,
                 data |-> IF m.qtype = "A" THEN "127.0.0.1" ELSE "::1"]>>]

\* Lines 244-268: the reply to m, with the question of m (SetReply), the
\* Authoritative bit and the one loopback answer.
DnsReply(m) ==
  [error |-> FALSE, question |-> m, aa |-> TRUE,
   answer |-> <<[name |-> m.name, rrtype |-> m.qtype, class |-> "IN",
                 ttl |-> 60,
                 data |-> IF m.qtype = "A" THEN "127.0.0.1" ELSE "::1"]>>]

\* The frame of task c before a query reaches it.  wrote is what it has
\* written to the client and sent what it has sent to the upstream, in
\* order; resp is what the exchange with the upstream returned.
DqIdle == [pc |-> "idle", m |-> [name |-> <<>>, qtype |-> ""],
           wrote |-> <<>>, sent |-> <<>>, resp |-> UpstreamErr]

\* Lines 241-243: a message with one question arrives; an A or AAAA
\* question calls needsProxy on the name, any other is forwarded.
DnsQuery(c, m) ==
  /\ dq[c].pc = "idle"
  /\ IF m.qtype \in {"A", "AAAA"}
       THEN /\ dq' = [dq EXCEPT ![c] = [@ EXCEPT !.pc = "policy", !.m = m]]
            /\ np' = [np EXCEPT ![c] = NpCall(proxyAddr, DropLastChar(m.name))]
       ELSE /\ dq' = [dq EXCEPT ![c] = [@ EXCEPT !.pc = "forward", !.m = m]]
            /\ UNCHANGED np
  /\ UNCHANGED proxyAddr

\* Line 243 once the needsProxy frame f has made a step.
DnsAfterPolicy(f) ==
  IF f.pc = "done" THEN (IF f.ret THEN "reply" ELSE "forward") ELSE "policy"

DnsPolicyEntry(c) ==
  /\ dq[c].pc = "policy" /\ NpEntry(c)
  /\ dq' = [dq EXCEPT ![c].pc = DnsAfterPolicy(np'[c])]
  /\ UNCHANGED proxyAddr

DnsPolicyIter(c) ==
  /\ dq[c].pc = "policy" /\ NpIter(c)
  /\ dq' = [dq EXCEPT ![c].pc = DnsAfterPolicy(np'[c])]
  /\ UNCHANGED proxyAddr

\* Lines 244-272: the loopback reply is written and forwardDns returns.
DnsAnswer(c) ==
  /\ dq[c].pc = "reply"
  /\ dq' = [dq EXCEPT ![c] = [@ EXCEPT !.pc = "done",
                                       !.wrote = Append(@, DnsReply(dq[c].m))]]
  /\ UNCHANGED matcherVars

\* Lines 276-286: m is sent to the upstream; its response r is written to
\* the client, and nothing is written when the exchange failed.
DnsForward(c, r) ==
  /\ dq[c].pc = "forward"
  /\ dq' = [dq EXCEPT ![c] =
       [@ EXCEPT !.pc = "done", !.sent = Append(@, dq[c].m), !.resp = r,
                 !.wrote = IF r.error THEN @ ELSE Append(@, r)]]
  /\ UNCHANGED matcherVars

InitDns == dq = [c \in Conns |-> DqIdle]

\* ------------------------------------------------------------ specifications
vars == <<proxyAddr, np, file, proc, poll, now, cacheCert, gc,
          conn, resolvLock, locked, cacheResolv, dq>>

\* The state before main runs: nothing cached, no connection accepted.
InitCert ==
  /\ cacheCert = [k \in CertKeys |-> NoLeaf]
  /\ gc = [c \in Conns |-> GcIdle]

InitTls ==
  /\ conn = [c \in Conns |-> ConnIdle]
  /\ resolvLock = [h \in TlsHosts |-> NoLock]
  /\ locked = {}
  /\ cacheResolv = [h \in TlsHosts |-> NoEntry]

\* The configuration file holds S and the poller has not started.
InitFile(S) ==
  /\ file = [exists |-> TRUE, content |-> S, mtime |-> 0, age |-> 0]
  /\ proc = "running"
  /\ InitPoll

\* SpecMatcher: the matcher alone, needsProxy on every hostname of the
\* bound, over every policy set, with no reload under way.
InitMatcher ==
  /\ proxyAddr \in PolicySets
  /\ \E h \in Hostnames :
       np = [c \in Conns |-> IF c = 1 THEN NpCall(proxyAddr, h) ELSE NpIdle]
  /\ InitFile(proxyAddr) /\ InitCert /\ InitTls /\ InitDns /\ now = 0

MatcherEntry ==
  \E c \in Conns : /\ NpEntry(c)
                   /\ UNCHANGED <<proxyAddr, now, reloadVars, certVars, tlsVars, dnsVars>>
MatcherIter ==
  \E c \in Conns : /\ NpIter(c)
                   /\ UNCHANGED <<proxyAddr, now, reloadVars, certVars, tlsVars, dnsVars>>

NextMatcher == MatcherEntry \/ MatcherIter

SpecMatcher == InitMatcher /\ [][NextMatcher]_vars

\* SpecReload: the policy store.  main calls pollingFileChange, the poller
\* reloads the file as editors write it, and a task looks names up meanwhile.
ReloadHosts == {<<"www","a","com">>, <<"a","com">>}

\* The task that looks names up while the poller runs.
Readers == {1}

\* A connection or DNS task calls needsProxy(h); the listeners are started
\* after pollingFileChange has returned (main, lines 431-464).
ReaderCall(c, h) ==
  /\ proc = "running" /\ poll.started
  /\ np[c].pc \in {"idle", "done"}
  /\ np' = [np EXCEPT ![c] = NpCall(proxyAddr, h)]
  /\ UNCHANGED <<proxyAddr, reloadVars>>

InitReload ==
  /\ proxyAddr = {}
  /\ np = [c \in Conns |-> NpIdle]
  /\ file \in {[exists |-> e, content |-> S, mtime |-> 0, age |-> 0] :
                 e \in BOOLEAN, S \in FileContents}
  /\ proc = "running"
  /\ InitPoll /\ InitCert /\ InitTls /\ InitDns /\ now = 0

ReloadStartup == StartupStat /\ UNCHANGED <<now, certVars, tlsVars, dnsVars>>
ReloadOpen == UcOpen /\ UNCHANGED <<now, certVars, tlsVars, dnsVars>>
ReloadPublish == UcPublish /\ UNCHANGED <<now, certVars, tlsVars, dnsVars>>
ReloadPoll == PollStat /\ UNCHANGED <<now, certVars, tlsVars, dnsVars>>
ReloadWrite == \E S \in FileContents, m \in 0..MaxMtime :
                 FileWrite(S, m) /\ UNCHANGED <<now, certVars, tlsVars, dnsVars>>
ReloadRemove == FileRemove /\ UNCHANGED <<now, certVars, tlsVars, dnsVars>>
ReloadCall == \E c \in Readers, h \in ReloadHosts :
                ReaderCall(c, h) /\ UNCHANGED <<now, certVars, tlsVars, dnsVars>>
ReloadEntry == \E c \in Readers :
                 /\ proc = "running" /\ NpEntry(c)
                 /\ UNCHANGED <<proxyAddr, now, reloadVars, certVars, tlsVars, dnsVars>>
ReloadIter == \E c \in Readers :
                /\ proc = "running" /\ NpIter(c)
                /\ UNCHANGED <<proxyAddr, now, reloadVars, certVars, tlsVars, dnsVars>>

NextReload ==
  \/ ReloadStartup \/ ReloadOpen \/ ReloadPublish \/ ReloadPoll
  \/ ReloadWrite \/ ReloadRemove
  \/ ReloadCall \/ ReloadEntry \/ ReloadIter

SpecReload == InitReload /\ [][NextReload]_vars

\* SpecCert: the inbound side of connections.  Each task takes a ClientHello,
\* runs getCertificate, completes the handshake and checks the policy; what
\* forwardTls does after the policy check is the subject of Spec.
CertPolicies == {{<<"a","com">>}, {<<"www","a","com">>}}

InitCertSpec ==
  /\ proxyAddr \in CertPolicies
  /\ np = [c \in Conns |-> NpIdle]
  /\ InitFile(proxyAddr) /\ InitCert /\ InitTls /\ InitDns /\ now = 0

CertHello == \E c \in Conns, s \in CertHosts :
               ClientHello(c, s) /\ UNCHANGED <<reloadVars, tlsVars, dnsVars>>
CertLoadSni == \E c \in Conns : GcLoadSni(c) /\ UNCHANGED <<reloadVars, tlsVars, dnsVars>>
CertLoadCn == \E c \in Conns : GcLoadCn(c) /\ UNCHANGED <<reloadVars, tlsVars, dnsVars>>
CertStore == \E c \in Conns : GcStore(c) /\ UNCHANGED <<reloadVars, tlsVars, dnsVars>>
CertRefused == \E c \in Conns :
                 HandshakeRefused(c) /\ UNCHANGED <<reloadVars, tlsVars, dnsVars>>
CertHandshake == \E c \in Conns, ok \in BOOLEAN :
                   HandshakeDone(c, ok) /\ UNCHANGED <<reloadVars, tlsVars, dnsVars>>
CertPolicyEntry == \E c \in Conns :
                     /\ gc[c].pc = "policy" /\ NpEntry(c)
                     /\ gc' = [gc EXCEPT ![c].pc = AfterPolicy(np'[c])]
                     /\ UNCHANGED <<proxyAddr, now, cacheCert, reloadVars, tlsVars, dnsVars>>
CertPolicyIter == \E c \in Conns :
                    /\ gc[c].pc = "policy" /\ NpIter(c)
                    /\ gc' = [gc EXCEPT ![c].pc = AfterPolicy(np'[c])]
                    /\ UNCHANGED <<proxyAddr, now, cacheCert, reloadVars, tlsVars, dnsVars>>

NextCert ==
  \/ CertHello \/ CertLoadSni \/ CertLoadCn \/ CertStore \/ CertRefused
  \/ CertHandshake \/ CertPolicyEntry \/ CertPolicyIter

SpecCert == InitCertSpec /\ [][NextCert]_vars

\* SpecAge: getCertificate while the process runs for months.  An instant of
\* the clock is thirty days and a call of getCertificate takes a moment, so
\* the clock advances only while no call is under way.
CertClock ==
  /\ \A c \in Conns : gc[c].pc \notin {"loadSni", "loadCn", "store"}
  /\ Tick
  /\ UNCHANGED <<matcherVars, reloadVars, certVars, tlsVars, dnsVars>>

NextAge == NextCert \/ CertClock

SpecAge == InitCertSpec /\ [][NextAge]_vars

\* Spec: forwardTls.  Connections are accepted, checked against the policy
\* and forwarded through the per-host lock and the resolve cache, under a
\* policy set that stays as loaded at startup and within one instant of the
\* clock; the certificate selection of the inbound handshake is the subject
\* of SpecCert, expiry of SpecTtl, reloads of SpecReload and SpecAll.
TlsPolicies == {{<<"a","com">>}, {<<"www","a","com">>}}

Init ==
  /\ proxyAddr \in TlsPolicies
  /\ np = [c \in Conns |-> NpIdle]
  /\ InitFile(proxyAddr) /\ InitCert /\ InitTls /\ InitDns /\ now = 0

Handshake == \E c \in Conns, ok \in BOOLEAN, h \in TlsHosts :
               TlsHandshake(c, ok, h) /\ UNCHANGED <<reloadVars, certVars, dnsVars>>
PolicyEntry == \E c \in Conns : TlsPolicyEntry(c) /\ UNCHANGED <<reloadVars, certVars, dnsVars>>
PolicyIter == \E c \in Conns : TlsPolicyIter(c) /\ UNCHANGED <<reloadVars, certVars, dnsVars>>
LoadLock == \E c \in Conns : GetLock(c) /\ UNCHANGED <<reloadVars, certVars, dnsVars>>
Acquire == \E c \in Conns : Lock(c) /\ UNCHANGED <<reloadVars, certVars, dnsVars>>
Cached == \E c \in Conns : CheckCache(c) /\ UNCHANGED <<reloadVars, certVars, dnsVars>>
CachedDial == \E c \in Conns, o \in DialOutcomes :
                DialCached(c, o) /\ UNCHANGED <<reloadVars, certVars, dnsVars>>
ExchangeAAAA == \E c \in Conns, ans \in AnswersAAAA :
                  ResolveAAAA(c, ans) /\ UNCHANGED <<reloadVars, certVars, dnsVars>>
ExchangeA == \E c \in Conns, ans \in AnswersA :
               ResolveA(c, ans) /\ UNCHANGED <<reloadVars, certVars, dnsVars>>
FreshDial == \E c \in Conns, o \in DialOutcomes :
               DialNext(c, o) /\ UNCHANGED <<reloadVars, certVars, dnsVars>>
Spliced == \E c \in Conns : SpliceDone(c) /\ UNCHANGED <<reloadVars, certVars, dnsVars>>
Reload == \E S \in TlsPolicies : Publish(S) /\ UNCHANGED <<reloadVars, certVars, dnsVars>>
Clock == Tick /\ UNCHANGED <<matcherVars, reloadVars, certVars, tlsVars, dnsVars>>

Next ==
  \/ Handshake \/ PolicyEntry \/ PolicyIter \/ LoadLock \/ Acquire \/ Cached
  \/ CachedDial \/ ExchangeAAAA \/ ExchangeA \/ FreshDial \/ Spliced

Spec == Init /\ [][Next]_vars

\* The same tasks with the clock advancing, so that resolve-cache entries
\* expire: every connection names the one hostname of TtlHosts, which the
\* policy matches, and the servers dialed present a chain that verifies for
\* it.
TtlHosts == {<<"www","a","com">>}

InitTtl ==
  /\ proxyAddr = {<<"a","com">>}
  /\ np = [c \in Conns |-> NpIdle]
  /\ InitFile(proxyAddr) /\ InitCert /\ InitTls /\ InitDns /\ now = 0

TtlHandshake == \E c \in Conns, ok \in BOOLEAN, h \in TtlHosts :
                  TlsHandshake(c, ok, h) /\ UNCHANGED <<reloadVars, certVars, dnsVars>>

\* The servers dialed present a chain that verifies; they are reached or not.
TrustedOutcomes == {o \in DialOutcomes : o.chain = {<<"www","a","com">>}}

TrustedCachedDial == \E c \in Conns, o \in TrustedOutcomes :
                       DialCached(c, o) /\ UNCHANGED <<reloadVars, certVars, dnsVars>>

TrustedFreshDial == \E c \in Conns, o \in TrustedOutcomes :
                      DialNext(c, o) /\ UNCHANGED <<reloadVars, certVars, dnsVars>>

NextTtl ==
  \/ TtlHandshake \/ PolicyEntry \/ PolicyIter \/ LoadLock \/ Acquire \/ Cached
  \/ TrustedCachedDial \/ ExchangeAAAA \/ ExchangeA \/ TrustedFreshDial
  \/ Spliced \/ Clock

SpecTtl == InitTtl /\ [][NextTtl]_vars

\* Both hostnames, the clock advancing and the policy reloaded, all at once.
NextAll == Next \/ Reload \/ Clock

SpecAll == Init /\ [][NextAll]_vars

\* SpecSplice: forwardTls with the splice taken apart into its tasks.  A
\* task that can run does run: a copy task on closed sockets returns, a
\* send into a channel with room and a receive from a channel with a signal
\* go through.  How long a peer keeps its side open is left to the peer.
\* The fairness asked for is the least the Go scheduler gives: of the tasks
\* that stay runnable, some one runs.
\* The connections name a hostname the policy matches or one it does not,
\* and the upstream resolver answers with an error, nothing or one address.
SpliceHandshake == \E c \in Conns, ok \in BOOLEAN,
                        h \in {<<"www","a","com">>, <<"com">>} :
                     TlsHandshake(c, ok, h) /\ UNCHANGED <<reloadVars, certVars, dnsVars>>

SpliceAAAA == \E c \in Conns, ans \in {ExchangeErr, <<>>} :
                ResolveAAAA(c, ans) /\ UNCHANGED <<reloadVars, certVars, dnsVars>>

SpliceA == \E c \in Conns, ans \in {ExchangeErr, <<"192.0.2.1:443">>} :
             ResolveA(c, ans) /\ UNCHANGED <<reloadVars, certVars, dnsVars>>

CopyEnd == \E c \in Conns, d \in Dirs :
             CopyEof(c, d) /\ UNCHANGED <<reloadVars, certVars, dnsVars>>

CopyAbort == \E c \in Conns, d \in Dirs :
               CopyAborted(c, d) /\ UNCHANGED <<reloadVars, certVars, dnsVars>>

Signal == \E c \in Conns, d \in Dirs :
            CopySignal(c, d) /\ UNCHANGED <<reloadVars, certVars, dnsVars>>

Receive == \E c \in Conns :
             SpliceReturn(c) /\ UNCHANGED <<reloadVars, certVars, dnsVars>>

NextSplice ==
  \/ SpliceHandshake \/ PolicyEntry \/ PolicyIter \/ LoadLock \/ Acquire
  \/ Cached \/ TrustedCachedDial \/ SpliceAAAA \/ SpliceA \/ TrustedFreshDial
  \/ CopyEnd \/ CopyAbort \/ Signal \/ Receive

SpecSplice ==
  /\ InitTtl /\ [][NextSplice]_vars
  /\ WF_vars(CopyAbort) /\ WF_vars(Signal) /\ WF_vars(Receive)

\* SpecLock: the connections to one hostname contend for its mutex.  A task
\* that can run does run: the mutex is granted to a waiting task when it is
\* free, and the cache check, the resolver exchanges (which time out) and the
\* dials (which end within dialTimeout) come to an end.  Nothing is asked
\* of the splice, which lasts as long as the peers like.
NextLock ==
  \/ SpliceHandshake \/ PolicyEntry \/ PolicyIter \/ LoadLock \/ Acquire
  \/ Cached \/ TrustedCachedDial \/ SpliceAAAA \/ SpliceA \/ TrustedFreshDial
  \/ Spliced

SpecLock ==
  /\ InitTtl /\ [][NextLock]_vars
  /\ WF_vars(Acquire) /\ WF_vars(Cached) /\ WF_vars(TrustedCachedDial)
  /\ WF_vars(SpliceAAAA) /\ WF_vars(SpliceA) /\ WF_vars(TrustedFreshDial)

\* SpecDns: the DNS interceptor.  Each task handles one query under a policy
\* set that stays as loaded at startup.

InitDnsSpec ==
  /\ proxyAddr \in {{<<"a","com">>}, {<<"www","a","com">>}}
  /\ np = [c \in Conns |-> NpIdle]
  /\ InitFile(proxyAddr) /\ InitCert /\ InitTls /\ InitDns /\ now = 0

DnsAsk == \E c \in Conns, m \in DnsMessages :
            DnsQuery(c, m) /\ UNCHANGED <<now, reloadVars, certVars, tlsVars>>
DnsEntry == \E c \in Conns :
              DnsPolicyEntry(c) /\ UNCHANGED <<now, reloadVars, certVars, tlsVars>>
DnsIter == \E c \in Conns :
             DnsPolicyIter(c) /\ UNCHANGED <<now, reloadVars, certVars, tlsVars>>
DnsLoopback == \E c \in Conns :
                 DnsAnswer(c) /\ UNCHANGED <<now, reloadVars, certVars, tlsVars>>
DnsUpstream == \E c \in Conns :
                 \E r \in {UpstreamErr} \cup UpstreamResponses(dq[c].m) :
                   DnsForward(c, r) /\ UNCHANGED <<now, reloadVars, certVars, tlsVars>>

NextDns == DnsAsk \/ DnsEntry \/ DnsIter \/ DnsLoopback \/ DnsUpstream

SpecDns == InitDnsSpec /\ [][NextDns]_vars

\* ------------------------------------------------------------- the matcher
\* The names the walk of section 4.B may look up for h: h itself and, when
\* eTLD+1(h) exists, every name obtained from h by dropping leading labels
\* that keeps at least one label in front of the public suffix.
Forms(h) ==
  {h} \cup (IF HasEmptyLabel(h) \/ Len(h) <= PublicSuffixLen(h) THEN {}
            ELSE {Suffix(h, n) : n \in (PublicSuffixLen(h) + 1)..Len(h)})

\* h is matched by the policy set S.
Matches(S, h) == \E f \in Forms(h) : f \in S

\* h is a public suffix: a name without empty labels that is its own public
\* suffix, so that it has no eTLD+1.
IsPublicSuffixName(h) ==
  /\ \A i \in 1..Len(h) : h[i] # ""
  /\ Len(h) = PublicSuffixLen(h)

\* C4: for every hostname h and policy set, needsProxy(h) returns true iff h
\* itself or a form of h with leading labels stripped, down to and including
\* eTLD+1(h), is in the set; the k-th lookup is h without its first k-1
\* labels, no lookup other than that of h itself reaches the public suffix,
\* and the loop only runs while the eTLD+1 is a proper suffix of the name in
\* hand, so each iteration shortens the name and the walk terminates.
C4_MatcherWalk ==
  \A c \in Conns :
    LET f == np[c] IN
    /\ f.pc = "done" => f.ret = Matches(proxyAddr, f.host)
    /\ \A i \in 1..Len(f.looked) :
         /\ f.looked[i] = Suffix(f.host, Len(f.host) - i + 1)
         /\ f.looked[i] = f.host \/ Len(f.looked[i]) > PublicSuffixLen(f.host)
    /\ f.pc = "loop" =>
         /\ Len(f.domain) > Len(f.secondary)
         /\ IsSuffix(f.secondary, f.domain)

\* C4 witness: a call on a name of four labels that missed on the name
\* itself and on the next form and returned true on its eTLD+1.
C4_Witness ==
  \E c \in Conns :
    /\ np[c].pc = "done" /\ np[c].ret
    /\ Len(np[c].looked) = 3
    /\ np[c].looked[3] = np[c].secondary

\* C5 as stated: for a hostname equal to a public suffix the matcher returns
\* false, whatever the policy set contains.
C5_Original ==
  \A c \in Conns :
    (np[c].pc = "done" /\ IsPublicSuffixName(np[c].host)) => ~np[c].ret

\* C5 amended: for a hostname equal to a public suffix that is not itself an
\* entry of the policy set, the matcher returns false after the one lookup of
\* the name itself, whatever else the policy set contains.
C5_PublicSuffixDenied ==
  \A c \in Conns :
    (/\ np[c].pc = "done"
     /\ IsPublicSuffixName(np[c].host)
     /\ np[c].host \notin proxyAddr)
    => (~np[c].ret /\ np[c].looked = <<np[c].host>>)

\* C5 witness: needsProxy("co.uk") has returned false under a policy set
\* that holds "a.co.uk" and not "co.uk".
C5_Witness ==
  \E c \in Conns :
    /\ np[c].pc = "done" /\ ~np[c].ret
    /\ np[c].host = <<"co","uk">>
    /\ <<"a","co","uk">> \in proxyAddr
    /\ <<"co","uk">> \notin proxyAddr

\* ---------------------------------------------------------- the policy store
\* C9 as stated: every needsProxy call returns what the matcher returns on
\* one complete policy set that was the active one during the call (the set
\* before a reload or the set after it), never a blend of two.
C9_ReloadAtomic ==
  \A c \in Conns :
    np[c].pc = "done" =>
      \E S \in np[c].seen : np[c].ret = Matches(S, np[c].host)

\* C10 as stated: once startup is over, a failure to stat or open the
\* configuration file does not end the process.
C10_ReloadFailureSurvived == poll.started => proc = "running"

\* C11 as stated: once two rounds of the polling loop have begun after a
\* write of the file and the poller is back in its sleep, the active policy
\* set is what the file holds, whatever the write did to the file's size and
\* modification time and wherever it landed in the poller's round.
C11_ReloadWithinTwoPolls ==
  (/\ proc = "running" /\ poll.started /\ poll.pc = "sleep"
   /\ file.exists /\ file.age = MaxAge)
  => proxyAddr = file.content

\* ------------------------------------------------------------ getCertificate
\* C2 as stated: no leaf is minted for, taken from the cache for, or presented
\* to the client for a ServerName that the matcher rejects.
C2_NoLeafOffPolicy ==
  \A c \in Conns :
    (gc[c].minted # NoLeaf \/ gc[c].cert # NoLeaf)
    => Matches(proxyAddr, gc[c].sni)

\* The eTLD+1 of a name that has one.
ETLD1(s) == Suffix(s, PublicSuffixLen(s) + 1)

\* The common name the code keys the leaf of ServerName s by: s itself when
\* s is one label longer than its public suffix, s without its first label
\* otherwise.
KeyOf(s) == IF Len(s) = PublicSuffixLen(s) + 1 THEN s ELSE Tail(s)

C6_Inv ==
  /\ \A k \in CertKeys : cacheCert[k] # NoLeaf => cacheCert[k].cn = k
  /\ \A c \in Conns :
       /\ gc[c].cn # <<>> => gc[c].cn = KeyOf(gc[c].sni)
       /\ gc[c].minted # NoLeaf => gc[c].minted.cn = KeyOf(gc[c].sni)
       /\ gc[c].cert # NoLeaf =>
            /\ gc[c].cert.cn \in {gc[c].sni, KeyOf(gc[c].sni)}
            /\ gc[c].hit = "sni" => gc[c].cert.cn = gc[c].sni
            /\ gc[c].hit = "cn" => gc[c].cert.cn = KeyOf(gc[c].sni)
            /\ gc[c].hit = "mint" => gc[c].cert = gc[c].minted
            /\ gc[c].hit # "mint" => gc[c].minted = NoLeaf

C6_Step ==
  \A c \in Conns :
    LET s == gc[c].sni IN
    /\ (/\ gc[c].pc = "loadSni" /\ gc'[c].pc # "loadSni"
        /\ CertLoad(cacheCert, s) # NoLeaf)
       => (/\ gc'[c].pc = "served"
           /\ gc'[c].cert = CertLoad(cacheCert, s)
           /\ gc'[c].minted = NoLeaf)
    /\ (/\ gc[c].pc = "loadCn" /\ gc'[c].pc # "loadCn"
        /\ ~EffectiveTLDPlusOne(s).err
        /\ CertLoad(cacheCert, KeyOf(s)) # NoLeaf)
       => (/\ gc'[c].pc = "served"
           /\ gc'[c].cert = CertLoad(cacheCert, KeyOf(s))
           /\ gc'[c].minted = NoLeaf)

C7_SingleMint ==
  \A c, d \in Conns :
    (c # d /\ gc[c].sni = gc[d].sni) =>
      /\ ~(gc[c].minted # NoLeaf /\ gc[d].minted # NoLeaf)
      /\ (gc[c].cert # NoLeaf /\ gc[d].cert # NoLeaf) => gc[c].cert = gc[d].cert

\* ---------------------------------------------------------------- forwardTls
\* Task c has passed the policy check: needsProxy returned true.
Passed(c) == np[c].pc = "done" /\ np[c].ret

\* C1: a connection whose ServerName the policy check does not match (its
\* needsProxy call returned false, which it does whenever no policy set that
\* was active during the call matches the name) is closed and has neither
\* obtained nor locked a mutex, called resolveRealIP, dialed, stored a
\* resolve-cache entry or spliced.
C1_PolicyMissCloses ==
  \A c \in Conns :
    /\ (np[c].pc = "done" /\ \A S \in np[c].seen : ~Matches(S, np[c].host))
       => ~np[c].ret
    /\ (np[c].pc = "done" /\ ~np[c].ret) =>
         /\ conn[c].pc = "closed"
         /\ conn[c].did = {}
         /\ conn[c].lock = NoLock
         /\ conn[c].addrs = <<>>

\* C1 witness: one connection was rejected by the policy check while another
\* one is splicing.
C1_Witness ==
  \E c, d \in Conns :
    /\ np[c].pc = "done" /\ ~np[c].ret /\ conn[c].pc = "closed"
    /\ conn[d].pc = "splice"

\* C3: for every hostname at most one task is between lock.Lock and
\* lock.Unlock (so at most one resolveRealIP call for it is in flight), the
\* task in there holds the mutex, and every task that has been through
\* resolvLock.LoadOrStore for the hostname has the one mutex stored for it.
C3_OnePerHost ==
  /\ \A c, d \in Conns :
       (c # d /\ conn[c].pc \in CsPcs /\ conn[d].pc \in CsPcs)
       => conn[c].host # conn[d].host
  /\ \A c \in Conns :
       /\ conn[c].pc \in CsPcs => conn[c].lock \in locked
       /\ conn[c].pc \in {"lock", "splice"} \cup CsPcs =>
            /\ conn[c].lock # NoLock
            /\ conn[c].lock = resolvLock[conn[c].host]

\* C3 witness: one task is inside resolveRealIP for a hostname while another
\* task for the same hostname waits in lock.Lock.
C3_Witness ==
  \E c, d \in Conns :
    /\ conn[c].pc = "resolveA" /\ conn[d].pc = "lock"
    /\ conn[c].host = conn[d].host

\* The connections to hostname h that passed the policy check.
ConnsTo(h) == {c \in Conns : Passed(c) /\ conn[c].host = h}

\* The first sentence of C8: under the lock the cached address is dialed only
\* when the entry exists and had not expired at the check, and resolveRealIP
\* is called only when there was no unexpired entry or the dial of the cached
\* address failed.
C8_Discipline ==
  \A c \in Conns :
    LET r == cacheResolv[conn[c].host] IN
    /\ conn[c].pc = "dialCached" => (r # NoEntry /\ r.expire >= conn[c].at)
    /\ conn[c].pc = "resolveAAAA" =>
         (r = NoEntry \/ r.expire < conn[c].at \/ "dialfail" \in conn[c].did)

\* The consequence drawn in C8 for the connections to h, given that `quiet`
\* holds of them: one resolveRealIP call at most, exactly one once a
\* connection splices, and no connection closed without having spliced.
C8_OneResolve(h, quiet) ==
  LET calls == {c \in ConnsTo(h) : "resolve" \in conn[c].did} IN
  quiet =>
    /\ Cardinality(calls) <= 1
    /\ \A c \in ConnsTo(h) :
         /\ conn[c].pc = "closed" => "splice" \in conn[c].did
         /\ "splice" \in conn[c].did => Cardinality(calls) = 1

\* C8 as stated: with every dial succeeding and no entry found expired, the
\* connections to one host cause exactly one resolveRealIP call and all
\* reach the splice.
C8_Original ==
  /\ C8_Discipline
  /\ \A h \in TlsHosts :
       C8_OneResolve(h, \A c \in ConnsTo(h) :
                          conn[c].did \cap {"dialfail", "stale"} = {})

\* C8 amended: the first sentence as stated; and connections to one host
\* from a cold cache, with every resolveRealIP call returning at least one
\* address, every dial succeeding and no entry found expired, cause exactly
\* one resolveRealIP call and all reach the splice.
C8_ResolveOnce ==
  /\ C8_Discipline
  /\ \A h \in TlsHosts :
       C8_OneResolve(h, \A c \in ConnsTo(h) :
                          conn[c].did \cap {"dialfail", "stale", "empty"} = {})

\* C8 witness: every connection went to the same host and has spliced, one
\* of them after the only resolveRealIP call, with no dial failed, no entry
\* expired and no empty resolution.
C8_Witness ==
  \E h \in TlsHosts :
    /\ ConnsTo(h) = Conns
    /\ \A c \in Conns :
         /\ "splice" \in conn[c].did
         /\ conn[c].did \cap {"dialfail", "stale", "empty"} = {}
    /\ Cardinality({c \in Conns : "resolve" \in conn[c].did}) = 1

\* -------------------------------------------------------------- resolveRealIP
\* The dial targets of a list of Resolv entries, in order.
Targets(rs) == [i \in 1..Len(rs) |-> rs[i].addr]

\* C12 as stated: the list resolveRealIP returns is empty whenever one of
\* its two exchanges failed, and is the AAAA targets followed by the A
\* targets, in the order returned, when both succeeded.
C12_EmptyOnError ==
  \A c \in Conns :
    (conn[c].pc = "dial" /\ Len(conn[c].got) = 2) =>
      IF ExchangeErr \in {conn[c].got[1], conn[c].got[2]}
        THEN conn[c].ret = <<>>
        ELSE Targets(conn[c].ret) = conn[c].got[1] \o conn[c].got[2]

\* ----------------------------------------------------------------- forwardDns
\* C13: a query with one question that has been handled.  If the question
\* is A or AAAA for a name the policy matches once its trailing dot is
\* removed, exactly one message was written, with the question of the query,
\* the Authoritative bit and the single answer 127.0.0.1 (A) or ::1 (AAAA)
\* with TTL 60, and nothing was sent to the upstream; otherwise the query
\* itself was sent to the upstream once, and what was written is the
\* upstream's response as received, or nothing when the exchange failed.
C13_DnsAnswers ==
  \A c \in Conns :
    dq[c].pc = "done" =>
      LET m == dq[c].m
          bare == SubSeq(m.name, 1, Len(m.name) - 1)
      IN IF m.qtype \in {"A", "AAAA"} /\ Matches(proxyAddr, bare)
           THEN /\ dq[c].sent = <<>>
                /\ Len(dq[c].wrote) = 1
                /\ dq[c].wrote[1].question = m
                /\ dq[c].wrote[1].aa
                /\ Len(dq[c].wrote[1].answer) = 1
                /\ dq[c].wrote[1].answer[1].name = m.name
                /\ dq[c].wrote[1].answer[1].rrtype = m.qtype
                /\ dq[c].wrote[1].answer[1].ttl = 60
                /\ dq[c].wrote[1].answer[1].data =
                     (IF m.qtype = "A" THEN "127.0.0.1" ELSE "::1")
           ELSE /\ dq[c].sent = <<m>>
                /\ dq[c].wrote = (IF dq[c].resp.error THEN <<>> ELSE <<dq[c].resp>>)

\* C13 witness: one query was answered with the loopback address while
\* another, for a name out of policy, got the upstream's response.
C13_Witness ==
  \E c, d \in Conns :
    /\ dq[c].pc = "done" /\ dq[c].m.qtype = "AAAA" /\ dq[c].sent = <<>>
    /\ Len(dq[c].wrote) = 1
    /\ dq[d].pc = "done" /\ dq[d].m.qtype = "A" /\ Len(dq[d].sent) = 1
    /\ Len(dq[d].wrote) = 1

\* ------------------------------------------------------------- the dial loop
C14_Inv ==
  \A c \in Conns :
    /\ conn[c].pc \in {"dialCached", "resolveAAAA", "resolveA", "dial"}
       => cacheResolv[conn[c].host] = conn[c].before
    /\ conn[c].pc = "dial" =>
         /\ conn[c].addrs # <<>>
         /\ Len(conn[c].addrs) <= Len(conn[c].ret)
         /\ conn[c].addrs = SubSeq(conn[c].ret,
                                   Len(conn[c].ret) - Len(conn[c].addrs) + 1,
                                   Len(conn[c].ret))

C14_Step ==
  \A c \in Conns :
    (conn[c].pc = "dial" /\ conn'[c] # conn[c]) =>
      LET h == conn[c].host
          first == conn[c].addrs[1]
      IN \/ /\ conn'[c].pc = "splice"
            /\ cacheResolv' = [cacheResolv EXCEPT ![h] = first]
         \/ /\ conn'[c].pc = "dial"
            /\ Len(conn[c].addrs) > 1
            /\ conn'[c].addrs = Tail(conn[c].addrs)
            /\ cacheResolv' = cacheResolv
         \/ /\ conn'[c].pc = "closed"
            /\ Len(conn[c].addrs) = 1
            /\ cacheResolv' = cacheResolv

\* C14: from the cache check on, and through a fresh resolution, the cache
\* entry of the host stays as the task found it; the dial loop holds a tail
\* of the list resolveRealIP returned and each of its steps dials the first
\* address of that tail: on success that address is stored under the host
\* and the splice starts with no further dial, on failure the loop goes on
\* with the rest, and after the last address has failed the connection
\* closes with the cache unchanged.
C14_DialOrder == []C14_Inv /\ [][C14_Step]_vars

\* C14 witness: one connection spliced after its AAAA target failed and its
\* A target succeeded, which is the address now cached; a later connection to
\* the same host closed after every dial failed, and the entry is still
\* there.
C14_Witness ==
  \E c, d \in Conns :
    /\ conn[c].host = conn[d].host
    /\ {"dialfail", "store", "splice"} \subseteq conn[c].did
    /\ conn[d].pc = "closed"
    /\ {"resolve", "dialfail"} \subseteq conn[d].did
    /\ "splice" \notin conn[d].did
    /\ cacheResolv[conn[c].host].addr = "192.0.2.1:443"

\* C15 as stated: the cache is checked before the lock is taken and the lock
\* is acquired only on a miss or a stale entry, so a task whose host had an
\* unexpired entry when it passed the policy check (and has had it since,
\* with no entry expiring) never holds the per-host lock.
C15_CacheBeforeLock ==
  \A c \in Conns : conn[c].fresh => conn[c].pc \notin CsPcs

\* ------------------------------------------------------ the connection states
\* The state of section 4 a connection is in, by number: ACCEPT and
\* INBOUND_HANDSHAKE 2 (a task starts with the handshake), POLICY_CHECK 3,
\* RESOLVE 4 (from line 186 to the return of resolveRealIP), OUTBOUND_DIAL
\* 5, SPLICE 6, CLOSED 7.
Stage(pc) ==
  CASE pc = "accept" -> 2
    [] pc = "policy" -> 3
    [] pc \in {"getlock", "lock", "cs", "resolveAAAA", "resolveA"} -> 4
    [] pc \in {"dialCached", "dial"} -> 5
    [] pc = "splice" -> 6
    [] pc = "closed" -> 7

\* C16 as stated: the states are passed in order, so a connection is never
\* in RESOLVE after it has been in OUTBOUND_DIAL, where every failure, that
\* of the dial of a cached address too, leads straight to CLOSED.
C16_Original ==
  \A c \in Conns : Stage(conn[c].pc) = 4 => "dial" \notin conn[c].did

C16_Inv ==
  \A c \in Conns :
    (Stage(conn[c].pc) = 4 /\ "dial" \in conn[c].did) =>
      /\ conn[c].pc \in {"resolveAAAA", "resolveA"}
      /\ "dialfail" \in conn[c].did
      /\ "store" \notin conn[c].did

C16_Step ==
  \A c \in Conns :
    LET s == Stage(conn[c].pc)
        t == Stage(conn'[c].pc)
    IN /\ s = 7 => conn'[c] = conn[c]
       /\ \/ t \in {s, s + 1, 7}
          \/ conn[c].pc = "dialCached" /\ conn'[c].pc = "resolveAAAA"
       /\ (conn[c].pc = "dialCached" /\ conn'[c].pc # "dialCached")
          => conn'[c].pc \in {"splice", "resolveAAAA"}

\* C16 amended: every connection moves through ACCEPT, INBOUND_HANDSHAKE,
\* POLICY_CHECK, RESOLVE, OUTBOUND_DIAL, SPLICE, CLOSED in that order, one
\* state at a time, and a failure moves it directly to CLOSED, except that
\* the failed dial of a cached address moves it back to RESOLVE, to resolve
\* afresh and dial again; CLOSED is final.
C16_StateOrder == []C16_Inv /\ [][C16_Step]_vars

\* C16 witness: a connection spliced after the dial of the cached address
\* had failed and a fresh resolution and dial had followed.
C16_Witness ==
  \E c \in Conns :
    /\ conn[c].pc = "splice"
    /\ {"dialfail", "resolve", "store"} \subseteq conn[c].did
    /\ "lock" \in conn[c].did
    /\ \E d \in Conns : d # c /\ conn[d].host = conn[c].host
                          /\ "store" \in conn[d].did
                          /\ conn[d].pc = "closed"

\* ------------------------------------------------------------------ the splice
C17_Inv ==
  \A c \in Conns :
    /\ conn[c].pc = "closed" => (conn[c].inb = "closed" /\ conn[c].outb # "open")
    /\ conn[c].pc = "splice" => (conn[c].inb = "open" /\ conn[c].outb = "open")
    /\ conn[c].outb = "none" <=> "splice" \notin conn[c].did
    /\ (conn[c].pc = "closed" /\ "splice" \in conn[c].did)
       => \E d \in Dirs : conn[c].copy[d] = "done"

C17_Ended(c) ==
  /\ conn[c].pc = "closed"
  /\ conn[c].inb = "closed" /\ conn[c].outb = "closed"
  /\ \A d \in Dirs : conn[c].copy[d] = "done"

\* A direction of the splice of connection c has finished and the
\* connection has not come to its end yet.
C17_Pending(c) ==
  /\ "splice" \in conn[c].did
  /\ \E d \in Dirs : conn[c].copy[d] # "copy"
  /\ ~C17_Ended(c)

\* A pending connection stays pending until it has ended, and forwardTls
\* returns from the splice only when a direction has finished.
C17_Step ==
  \A c \in Conns :
    /\ C17_Pending(c) => (C17_Pending(c)' \/ C17_Ended(c)')
    /\ (conn[c].pc = "splice" /\ conn'[c].pc = "closed") => C17_Pending(c)

\* C17: a splicing connection of which one copy direction has finished
\* comes to an end: no connection stays pending for ever, and a pending one
\* can only end with forwardTls returned, both sockets closed and both copy
\* tasks ended, neither of them held up at its send into the channel;
\* forwardTls does not return before a direction has finished; and on every
\* exit path of forwardTls the inbound socket is closed and the outbound
\* socket, if one was opened, is closed too.
C17_SpliceEnds ==
  /\ []C17_Inv
  /\ [][C17_Step]_vars
  /\ <>[](\A c \in Conns : ~C17_Pending(c))

\* C17 witness: a connection has ended after one copy direction finished,
\* the other ended on the closed sockets, and its signal is left in the
\* channel.
C17_Witness ==
  \E c \in Conns : C17_Ended(c) /\ conn[c].fin = 1

\* ------------------------------------------------------- upstream verification
C18_Inv ==
  \A c \in Conns :
    conn[c].outb # "none" =>
      /\ "splice" \in conn[c].did
      /\ VerifyPeer(conn[c].peer, conn[c].host)

C18_Step ==
  /\ \A c \in Conns :
       ("splice" \notin conn[c].did /\ "splice" \in conn'[c].did)
         => (conn'[c].outb = "open" /\ VerifyPeer(conn'[c].peer, conn[c].host))
  /\ \A h \in TlsHosts :
       cacheResolv'[h] # cacheResolv[h] =>
         \E c \in Conns :
           /\ conn[c].host = h /\ conn[c].pc = "dial"
           /\ "splice" \in conn'[c].did
           /\ VerifyPeer(conn'[c].peer, h)

\* C18: a dial counts as successful only when the chain the server
\* presented verifies for the ServerName of the connection: a connection
\* that has an outbound socket or has reached the splice holds a chain that
\* verifies for its host, and the resolve cache of a host changes only in a
\* step in which a connection to that host got such a chain from the dialed
\* target.
C18_VerifiedDial == []C18_Inv /\ [][C18_Step]_vars

\* C18 witness: a dial of a connection has reached a server whose chain did
\* not verify and failed, and a later dial of it succeeded: it splices and
\* the address is cached.
C18_Witness ==
  \E c \in Conns :
    /\ {"unverified", "store", "splice"} \subseteq conn[c].did
    /\ conn[c].peer = {conn[c].host}
    /\ cacheResolv[conn[c].host] # NoEntry

\* ------------------------------------------------------------ the per-host lock
\* The mutexes held are those of the tasks between lock.Lock and
\* lock.Unlock: none is held by a task that splices or has returned.
C19_Inv ==
  locked = {conn[c].lock : c \in {d \in Conns : conn[d].pc \in CsPcs}}

C19_Step ==
  /\ \A c \in Conns :
       /\ (conn[c].pc \in CsPcs /\ conn'[c].pc \notin CsPcs) =>
            /\ conn'[c].pc \in {"splice", "closed"}
            /\ conn[c].lock \in locked /\ conn[c].lock \notin locked'
       /\ conn[c].pc = "lock" => conn'[c].pc \in {"lock", "cs"}
       /\ conn'[c].pc = "splice" => conn[c].pc \in CsPcs \cup {"splice"}
  /\ \A l \in locked \ locked' :
       \E c \in Conns : /\ conn[c].lock = l
                         /\ conn[c].pc \in CsPcs /\ conn'[c].pc \notin CsPcs

\* C19: a task that acquired the mutex of its host releases it in the step
\* in which it leaves the part between lock.Lock and lock.Unlock, by any of
\* the four exits, and a mutex is released by no other step; the splice is
\* entered only by such a step, so a splicing task holds no mutex; and no
\* task waits in lock.Lock for ever: every waiting task comes to hold the
\* mutex, however long the splices of the other tasks last.
C19_LockReleased ==
  /\ []C19_Inv
  /\ [][C19_Step]_vars
  /\ <>[](\A c \in Conns : conn[c].pc # "lock")

\* C19 witness: a task holds the mutex of a hostname while another task,
\* which held the same mutex before, splices to that hostname.
C19_Witness ==
  \E c, d \in Conns :
    /\ c # d /\ conn[c].host = conn[d].host
    /\ conn[d].pc = "splice" /\ "lock" \in conn[d].did
    /\ conn[c].pc \in CsPcs /\ conn[c].lock = conn[d].lock

\* --------------------------------------------------------------- leaf validity
\* C20: every leaf getCertificate returns, minted or taken from cacheCert,
\* is within its validity at the instant it is returned: NotBefore is not
\* after that instant and NotAfter, thirty days after the mint, not before
\* it.
C20_ValidWhenReturned ==
  \A c \in Conns :
    gc[c].pc = "served" =>
      /\ gc[c].cert.notBefore <= gc[c].at
      /\ gc[c].at <= NotAfter(gc[c].cert)

=============================================================================
